---------------------------- MODULE Spec2Model ----------------------------
(***************************************************************************)
(* TIFF LZW strip decoder (towhee/TiffLzwDecoder).                         *)
(*                                                                         *)
(* The repository holds several generations of decompressLZW.  The model   *)
(* follows the two arena generations of src/main.cpp:                      *)
(*   variant "A"  src/main.cpp:108-218  (memcpy copies, pBuf predictor)    *)
(*   variant "C"  src/main.cpp:734-961  (switch copies, predictor flag,    *)
(*                                       maxCode test)                     *)
(* One action is one iteration of the decode loop, split by the branch the *)
(* extracted code takes; Burst runs BurstLen iterations of the same loop   *)
(* in one step.  Encoded inputs come from a reference encoder evaluated in *)
(* Init.  Memory the code never initialises (ps, sEnd, s[258..],           *)
(* sLen[256..], strings[258..]) is kept as Junk / Wild and resolved to an  *)
(* arbitrary value where it is used.                                       *)
(***************************************************************************)
EXTENDS Integers, Sequences, FiniteSets, TLC

(***************************************************************************)
(* Program constants                                                       *)
(***************************************************************************)
CLEAR_CODE == 256
EOF_CODE == 257
maxCode == 4095
bytesPerRow == 2400
LZW_STRING_SIZE == 256
LZW_STRINGS_SIZE == 128000
TableSize == 4096
uncompressedLengthFirstStrip == 1080000

(***************************************************************************)
(* Bounds of the model                                                     *)
(***************************************************************************)
\* how many bytes past the end of inBa a read may land on before it faults
MaxOverRead == 2
\* how many slots past s[4095] a write may land on before it faults
MaxTableOverrun == 1
\* length of the code sequences enumerated as raw inputs
MaxCodes == 2
\* length of the byte sequences enumerated as strips to encode
MaxSrc == 5
\* a caller's output buffer that is too small
SmallOut == 2
\* number of times main calls decompressLZW on the same buffers
MaxCalls == 2
\* number of loop iterations the model can take in one step
BurstLen == 64
\* length of the strip of distinct bytes (one code per byte)
StepsLen == 130

(***************************************************************************)
(* Uninitialised storage                                                   *)
(***************************************************************************)
\* content of a char cell that was never written
Junk == -1
\* value of a pointer that was never set: it points outside strings (that
\* sEnd holds an address inside strings happens once an earlier call has
\* left one, see Recall)
Wild == -1
\* values an indeterminate byte may turn out to have
GarbageBytes == {0, 65}
\* values an indeterminate int8_t length may turn out to have
GarbageLens == {1, -1}

Max(a, b) == IF a >= b THEN a ELSE b

\* conversion of an int to int8_t
ToInt8(x) == LET m == x % 256 IN IF m >= 128 THEN m - 256 ELSE m

\* pointer arithmetic p + i
Off(p, i) == IF p = Wild THEN Wild ELSE p + i


(***************************************************************************)
(* Bit packing, most significant bit first                                 *)
(***************************************************************************)
\* append the code cd of w bits to the bit stream p
PutNextCode(p, cd, w) ==
    LET a == p.acc * 2^w + cd
        b == p.nb + w
    IN  IF b >= 16
        THEN [bytes |-> p.bytes \o << a \div 2^(b - 8), (a \div 2^(b - 16)) % 256 >>,
              acc |-> a % 2^(b - 16), nb |-> b - 16]
        ELSE [bytes |-> Append(p.bytes, a \div 2^(b - 8)),
              acc |-> a % 2^(b - 8), nb |-> b - 8]

\* the <<code, width>> pairs cw[lo .. hi] appended to p, one half of the
\* range after the other
RECURSIVE PutCodes(_, _, _, _)
PutCodes(p, cw, lo, hi) ==
    IF lo > hi THEN p
    ELSE IF lo = hi THEN PutNextCode(p, cw[lo][1], cw[lo][2])
    ELSE LET mid  == (lo + hi) \div 2
             head == PutCodes(p, cw, lo, mid)
         IN  IF head.nb < 8 THEN PutCodes(head, cw, mid + 1, hi) ELSE head

\* the bytes of the stream, the last one zero padded
Flush(p) == IF p.nb = 0 THEN p.bytes ELSE Append(p.bytes, p.acc * 2^(8 - p.nb))

Pack(cw) == Flush(PutCodes([bytes |-> <<>>, acc |-> 0, nb |-> 0], cw, 1, Len(cw)))

\* a stream of 9-bit codes
Pack9(codes) == Pack([i \in 1..Len(codes) |-> <<codes[i], 9>>])

AsTuple(f) == SubSeq(f, 1, Len(f))

(***************************************************************************)
(* Reference TIFF LZW encoder (the producer of well-formed strips): a      *)
(* leading ClearCode, greedy longest-match phrases, libtiff's rules for    *)
(* the code width (it grows once the entry 2^width - 1 is taken, the last  *)
(* code counts as an insertion) and for the table (ClearCode once entry    *)
(* 4093 is taken), and a trailing EOFCode.                                 *)
(***************************************************************************)
Matches(B, i, str) ==
    /\ i + Len(str) - 1 <= Len(B)
    /\ SubSeq(B, i, i + Len(str) - 1) = str

\* code of the longest table string that starts at B[i]
LongestMatch(B, i, tab) ==
    LET cands == {k \in 1..Len(tab) : Matches(B, i, tab[k])}
    IN  IF cands = {} THEN B[i]
        \* the table is prefix closed: the matching strings have the lengths
        \* 2 .. Cardinality(cands) + 1, one each
        ELSE 257 + (CHOOSE k \in cands : Len(tab[k]) = Cardinality(cands) + 1)

EncString(tab, k) == IF k < 256 THEN <<k>> ELSE tab[k - 257]

\* the encoder e after the next phrase of B
EncodeStep(e, B) ==
    LET cd   == LongestMatch(B, e.pos, e.tab)
        str  == EncString(e.tab, cd)
        pos  == e.pos + Len(str)
        p1   == PutNextCode(e.put, cd, e.bits)
        free == 258 + Len(e.tab) + 1
        full == free = maxCode - 1
    IN  [pos  |-> pos,
         tab  |-> IF full THEN <<>>
                  ELSE IF pos <= Len(B) THEN Append(e.tab, Append(str, B[pos]))
                  ELSE e.tab,
         bits |-> IF full THEN 9
                  ELSE IF free > 2^(e.bits) - 1 THEN e.bits + 1 ELSE e.bits,
         put  |-> IF full THEN PutNextCode(p1, CLEAR_CODE, e.bits) ELSE p1]

\* at most k phrases, one half of them after the other
RECURSIVE EncodeRun(_, _, _)
EncodeRun(e, B, k) ==
    IF e.pos > Len(B) THEN e
    ELSE IF k <= 1 THEN EncodeStep(e, B)
    ELSE LET head == EncodeRun(e, B, k \div 2)
         IN  IF head.pos > Len(B) THEN head ELSE EncodeRun(head, B, k - k \div 2)

Encode(B) ==
    LET e0 == [pos |-> 1, tab |-> <<>>, bits |-> 9,
               put |-> PutNextCode([bytes |-> <<>>, acc |-> 0, nb |-> 0], CLEAR_CODE, 9)]
        e  == EncodeRun(e0, B, Len(B))
    IN  Flush(PutNextCode(e.put, EOF_CODE, e.bits))

\* TIFF horizontal differencing of 8-bit RGB rows (predictor 2), the
\* transformation a writer applies before compressing
Diff(B) == [p \in 1..Len(B) |->
               IF (p - 1) % bytesPerRow < 3 THEN B[p]
               ELSE (B[p] - B[p - 3]) % 256]


(***************************************************************************)
(* State                                                                   *)
(***************************************************************************)
VARIABLES
    variant,    \* which generation of decompressLZW runs: "A" or "C"
    predictor,  \* const bool predictor (variant "A" always filters)
    outLen,     \* outBa.size()
    src,        \* the bytes the strip was compressed from, NoSrc for a raw stream
    inBa,       \* the compressed strip
    pc,         \* "run" (in the decode loop), "done" (returned), "crash"
    call,       \* number of the current call of decompressLZW
    out1,       \* what the previous call wrote
    c,          \* offset of the input pointer c from inBa.data()
    incoming, iBuf, nBits, codeBits, nextBump, code,
    s, sLen, strings, sEnd, ps, psLen, nextCode,
    n,          \* output byte counter
    out,        \* the bytes written through the pointer out, in order
    dec,        \* the dictionary bytes emitted, before the predictor
    pBuf,
    \* the slot generation of src/unnamed/part_000 (variant "E")
    codeMask,   \* the global uint32_t codeMask[32]
    pending, availBits, currCode,
    dict,       \* char dict[DICT_SIZE], the cells written so far
    \* the width bookkeeping of the four generations of the decoder, each
    \* reading the same inBa with its own cursor
    width

cfgVars == <<variant, predictor, outLen, src>>
slotVars == <<codeMask, pending, availBits, currCode, dict>>
bitVars == <<c, incoming, iBuf, nBits, code>>
tabVars == <<s, sLen, strings, sEnd, ps, psLen, nextCode, codeBits, nextBump>>
outVars == <<n, out, dec, pBuf>>
vars == <<cfgVars, inBa, pc, call, out1, bitVars, tabVars, outVars, slotVars, width>>

NoSrc == << -1 >>


(***************************************************************************)
(* The global codeMask: zero as static storage starts, or as               *)
(* buildCodeMask leaves it, codeMask[i] = (1 << i) - 1                     *)
(***************************************************************************)
ZeroMask == [i \in 0..31 |-> 0]

BuiltMask == [i \in 0..31 |-> IF i < 31 THEN 2^i - 1 ELSE 2147483647]

(***************************************************************************)
(* The bit cursor and the width bookkeeping of each generation at the      *)
(* entry of decompressLZW: "A" src/main.cpp:108, "B" src/main.cpp:425,     *)
(* "D" src/unnamed/part_000:81, "E" src/unnamed/part_000:340.  "A" counts  *)
(* with nextCode against nextBump 511, the others with currCode against    *)
(* nextBump 512.                                                           *)
(***************************************************************************)
Generations == {"A", "B", "D", "E"}

WidthEntry ==
    [g \in Generations |->
       [c |-> 0, left |-> 0, buf |-> 0, codeBits |-> 9, code |-> -1,
        nextBump |-> IF g = "A" THEN 511 ELSE 512,
        nextCode |-> 258, currCode |-> 257, psLen |-> 0, live |-> TRUE]]

(***************************************************************************)
(* Memory helpers.  strings, s, sLen and ps are kept up to the highest     *)
(* cell written; a cell beyond it, or a padded one, was never written.     *)
(***************************************************************************)
Pad(k) == [i \in 1..k |-> Junk]

\* seq with its 1-based cell idx set to v
SetAt(seq, idx, v) ==
    IF idx <= Len(seq) THEN [seq EXCEPT ![idx] = v]
    ELSE seq \o Pad(idx - Len(seq) - 1) \o <<v>>

\* a store of vals at strings + p lands inside the arena
InArena(p, k) == p # Wild /\ p >= 0 /\ p + k <= LZW_STRINGS_SIZE

\* mem after vals were stored from offset p on (nothing is kept of a
\* store that misses the arena)
ArenaWrite(mem, p, vals) ==
    IF vals = <<>> \/ ~InArena(p, Len(vals)) THEN mem
    ELSE LET pre  == IF p <= Len(mem) THEN SubSeq(mem, 1, p)
                     ELSE mem \o Pad(p - Len(mem))
             post == IF p + Len(vals) < Len(mem)
                     THEN SubSeq(mem, p + Len(vals) + 1, Len(mem)) ELSE <<>>
         IN  pre \o vals \o post

\* the k cells from offset p on, Junk where nothing was written
ArenaRead(mem, p, k) ==
    IF k <= 0 THEN <<>>
    ELSE IF InArena(p, k) /\ p + k <= Len(mem) THEN SubSeq(mem, p + 1, p + k)
    ELSE [i \in 1..k |->
            IF InArena(p, i) /\ p + i <= Len(mem) THEN mem[p + i] ELSE Junk]

\* an indeterminate byte takes the value g
Res(cells, g) ==
    IF \A i \in 1..Len(cells) : cells[i] # Junk THEN cells
    ELSE [i \in 1..Len(cells) |-> IF cells[i] = Junk THEN g ELSE cells[i]]

HasJunk(cells) == \E i \in 1..Len(cells) : cells[i] = Junk

(***************************************************************************)
(* The locals of decompressLZW as a record, so that the blocks of the loop *)
(* body can be applied one after the other.                                *)
(***************************************************************************)
Locals ==
    [c |-> c, incoming |-> incoming, iBuf |-> iBuf, nBits |-> nBits, code |-> code,
     s |-> s, sLen |-> sLen, strings |-> strings, sEnd |-> sEnd, ps |-> ps,
     psLen |-> psLen, nextCode |-> nextCode, codeBits |-> codeBits,
     nextBump |-> nextBump, n |-> n, out |-> out, dec |-> dec, pBuf |-> pBuf,
     \* an access outside its object has happened / one that faults
     ub |-> FALSE, fatal |-> FALSE,
     \* the loop has been left, or the iteration needs an indeterminate value
     stop |-> FALSE]

\* s[k]: the literals and the two reserved codes point at strings[k]
SOf(L, k) ==
    IF k < 258 THEN k
    ELSE IF k - 257 <= Len(L.s) THEN L.s[k - 257] ELSE Wild

\* sLen[k]; gl is what a never written length reads as
SLenOf(L, k, gl) ==
    IF k < 256 THEN 1
    ELSE IF k >= 258 /\ k - 257 <= Len(L.sLen) THEN L.sLen[k - 257] ELSE gl

\* the first k cells of ps
PsRead(L, k) ==
    IF k <= Len(L.ps) THEN SubSeq(L.ps, 1, k) ELSE L.ps \o Pad(k - Len(L.ps))

\* ps after the cells were copied to its start
PsWrite(L, cells) ==
    IF Len(cells) >= Len(L.ps) THEN cells
    ELSE cells \o SubSeq(L.ps, Len(cells) + 1, Len(L.ps))

\* bytes moved when len bytes are to be copied: variant C copies two
\* 32-bit words for 5..8 bytes
MoveLen(len) == IF variant = "C" /\ len \in 5..8 THEN 8 ELSE len


(***************************************************************************)
(* GetNextCode.  iBuf is a uint32_t, kept as its four bytes (most          *)
(* significant first); a code is cut from its low 24 bits, which is all    *)
(* that nBits <= 23 can reach.  g1, g2 are what a read past the end of     *)
(* inBa returns.                                                           *)
(***************************************************************************)
InByte(i, g) == IF i < Len(inBa) THEN inBa[i + 1] ELSE g

Shl8Or(buf, b) == <<buf[2], buf[3], buf[4], b>>

\* a plausible slip: a bit buffer of 16 bits
Low16(buf) == buf[3] * 256 + buf[4]

Low24(buf) == buf[2] * 65536 + buf[3] * 256 + buf[4]

\* a plausible slip: the loop has no exit of its own
LoopCondAlways(L) == TRUE

\* variant A counts incoming up to inBa.size(); variant C counts the
\* uint32_t incoming down from it (a negative value stands for its
\* wrapped value 2^32 + incoming)
LoopCond(L) == IF variant = "A" THEN L.incoming < Len(inBa) ELSE L.incoming # 0

\* a plausible slip: the second byte is read whether it is needed or not
TwoReadsAlways(L) == TRUE

TwoReads(L) == L.nBits + 8 < L.codeBits

GetNextCode(L, g1, g2) ==
    LET b1   == Shl8Or(L.iBuf, InByte(L.c, g1))
        b2   == IF TwoReads(L) THEN Shl8Or(b1, InByte(L.c + 1, g2)) ELSE b1
        n2   == IF TwoReads(L) THEN L.nBits + 16 ELSE L.nBits + 8
        used == IF TwoReads(L) THEN 2 ELSE 1
    IN  [L EXCEPT
           !.code     = (Low24(b2) \div 2^(n2 - L.codeBits)) % 2^(L.codeBits),
           !.iBuf     = b2,
           !.nBits    = n2 - L.codeBits,
           !.c        = L.c + used,
           !.incoming = IF variant = "A" THEN L.incoming + used ELSE L.incoming - used,
           !.ub       = L.ub \/ L.c + used > Len(inBa),
           !.fatal    = L.fatal \/ L.c + used > Len(inBa) + MaxOverRead]

\* what the bytes read past the end of inBa may be
G1(L) == IF L.c < Len(inBa) THEN {0} ELSE GarbageBytes
G2(L) == IF TwoReads(L) /\ L.c + 1 >= Len(inBa) THEN GarbageBytes ELSE {0}

\* where the loop is after an iteration: an access outside an object may
\* fault (ub), one far outside does (fatal)
After(L, to) ==
    IF L.fatal THEN {"crash"} ELSE IF L.ub THEN {to, "crash"} ELSE {to}

(***************************************************************************)
(* The blocks of the loop body                                             *)
(***************************************************************************)
\* if (code == nextCode): strings[code] = ps + ps[0]
NewString(L, cd) ==
    IF cd # L.nextCode THEN L
    ELSE LET copied == ArenaWrite(L.strings, L.sEnd, PsRead(L, MoveLen(L.psLen)))
         IN  [L EXCEPT
                !.s       = SetAt(L.s, cd - 257, L.sEnd),
                !.strings = ArenaWrite(copied, Off(L.sEnd, L.psLen), PsRead(L, 1)),
                !.sLen    = SetAt(L.sLen, cd - 257, ToInt8(ToInt8(L.psLen) + 1)),
                !.sEnd    = Off(L.sEnd, L.psLen + 1),
                !.ub      = \/ L.ub
                            \/ ~InArena(L.sEnd, Max(MoveLen(L.psLen), L.psLen + 1))
                            \/ cd >= TableSize]

\* The output loop takes the bytes raw[lo .. hi] in order; the operators
\* below run it on the two halves of the range, one after the other.

\* a plausible slip: the byte is added to the one just written
PredictPrevious(o, nn, b) ==
    IF nn % bytesPerRow < 3 THEN b ELSE (b + o[Len(o)]) % 256

\* a plausible slip: only the first row starts with absolute values
PredictFirstRow(o, nn, b) ==
    IF nn < 3 THEN b ELSE (b + o[Len(o) - 2]) % 256

\* variant C, predictor on: the byte written at row position nn % bytesPerRow
\* for the string byte b, *(out - 3) being o[Len(o) - 2]
Predict(o, nn, b) ==
    IF nn % bytesPerRow < 3 THEN b ELSE (b + o[Len(o) - 2]) % 256

\* variant C, predictor on: *out++ = *(s[code] + i) + *(out - 3)
RECURSIVE EmitDirect(_, _, _, _, _)
EmitDirect(o, nn, raw, lo, hi) ==
    IF lo > hi THEN o
    ELSE IF lo = hi
    THEN Append(o, Predict(o, nn, raw[lo]))
    ELSE LET mid == (lo + hi) \div 2
         IN  \* the first half is written before the second starts
             CHOOSE res \in
               {EmitDirect(head, nn + (mid - lo + 1), raw, mid + 1, hi) :
                  head \in {EmitDirect(o, nn, raw, lo, mid)}} : TRUE

\* variant A: the last three bytes written are kept in pBuf
RECURSIVE EmitShift(_, _, _, _)
EmitShift(st, raw, lo, hi) ==
    IF lo > hi THEN st
    ELSE IF lo = hi
    THEN LET p0 == IF st.n % bytesPerRow = 0 THEN 0 ELSE st.pBuf
             b  == (raw[lo] + (p0 % 256)) % 256
         IN  [out |-> Append(st.out, b), n |-> st.n + 1,
              pBuf |-> (p0 \div 256) + b * 65536]
    ELSE LET mid == (lo + hi) \div 2
         IN  \* the first half is written before the second starts
             CHOOSE res \in
               {EmitShift(head, raw, mid + 1, hi) :
                  head \in {EmitShift(st, raw, lo, mid)}} : TRUE

\* a plausible slip: the plain branch filters as well
PlainFiltered(o, nn, raw) == EmitDirect(o, nn, raw, 1, Len(raw))

\* variant C, predictor off: *out++ = *(s[code] + i)
Plain(o, nn, raw) == o \o raw

\* the output loop over the sLen[code] bytes raw of strings[code]
Output(L, raw) ==
    LET sh == EmitShift([out |-> L.out, n |-> L.n, pBuf |-> L.pBuf], raw, 1, Len(raw))
    IN  [L EXCEPT
           !.out  = IF variant = "A" THEN sh.out
                    ELSE IF predictor THEN EmitDirect(L.out, L.n, raw, 1, Len(raw))
                    ELSE Plain(L.out, L.n, raw),
           !.pBuf = IF variant = "A" THEN sh.pBuf ELSE L.pBuf,
           !.n    = L.n + Len(raw),
           !.dec  = L.dec \o raw,
           !.ub   = L.ub \/ L.n + Len(raw) > outLen]

\* what the second copy of the insertion moves: variant C the byte
\* *s[code], variant A memcpy's sLen[code] bytes from s[code] (a source
\* byte inside the destination is indeterminate unless both coincide)
InsertTail(mem, from, to, len) ==
    IF variant = "C" THEN ArenaRead(mem, from, 1)
    ELSE [j \in 1..len |->
            IF from # to /\ from # Wild /\ from + j - 1 >= to /\ from + j - 1 < to + len
            THEN Junk ELSE ArenaRead(mem, Off(from, j - 1), 1)[1]]

\* if (psLen): strings[nextCode] = ps + strings[code][0]; ++nextCode
AddString(L, cd, len) ==
    IF L.psLen = 0 THEN L
    ELSE LET L2     == [L EXCEPT !.s = SetAt(L.s, L.nextCode - 257, L.sEnd)]
             copied == ArenaWrite(L.strings, L.sEnd, PsRead(L, MoveLen(L.psLen)))
             dst    == Off(L.sEnd, L.psLen)
             tail   == InsertTail(copied, SOf(L2, cd), dst, len)
         IN  [L2 EXCEPT
                !.strings  = ArenaWrite(copied, dst, tail),
                !.sLen     = SetAt(L.sLen, L.nextCode - 257, ToInt8(L.psLen + 1)),
                !.sEnd     = Off(L.sEnd, L.psLen + 1),
                !.nextCode = L.nextCode + 1,
                !.ub       = \/ L.ub
                             \/ ~InArena(L.sEnd, Max(MoveLen(L.psLen), L.psLen + Len(tail)))
                             \/ L.nextCode >= TableSize,
                !.fatal    = L.fatal \/ L.nextCode >= TableSize + MaxTableOverrun]

\* prevString = strings[code]
CopyPrev(L, cd, len) ==
    [L EXCEPT
       !.ps    = PsWrite(L, ArenaRead(L.strings, SOf(L, cd), MoveLen(len))),
       !.psLen = len,
       !.ub    = \/ L.ub
                 \/ (len > 0 /\ ~InArena(SOf(L, cd), MoveLen(len)))
                 \/ MoveLen(len) > LZW_STRING_SIZE]

\* variant A: if (nextCode == nextBump)
BumpA(L) ==
    IF L.nextCode = L.nextBump
    THEN [L EXCEPT !.nextBump = L.nextBump * 2 + 1, !.codeBits = L.codeBits + 1]
    ELSE L

\* variant C: the same with the test against maxCode
BumpC(L) ==
    IF L.nextCode # L.nextBump THEN L
    ELSE IF L.nextCode < maxCode
    THEN [L EXCEPT !.nextBump = L.nextBump * 2 + 1, !.codeBits = L.codeBits + 1]
    ELSE IF L.nextCode = maxCode THEN L
    ELSE [L EXCEPT !.codeBits = 9, !.nextBump = 511, !.sEnd = SOf(L, 257),
                   !.nextCode = 258, !.psLen = 0]

\* a plausible slip: -- for ++
BumpShrink(L) ==
    IF L.nextCode = L.nextBump
    THEN [L EXCEPT !.nextBump = L.nextBump * 2 + 1, !.codeBits = L.codeBits - 1]
    ELSE L

\* a plausible slip: the width grows one code later (no early change)
BumpLate(L) ==
    IF L.nextCode = L.nextBump + 1
    THEN [L EXCEPT !.nextBump = L.nextBump * 2 + 1, !.codeBits = L.codeBits + 1]
    ELSE L

Bump(L) == IF variant = "A" THEN BumpA(L) ELSE BumpC(L)

\* the body after the tests for the two reserved codes, for a length that
\* is not negative
Body(L, len, raw) ==
    CHOOSE L5 \in
      {Bump(L4) : L4 \in
        {CopyPrev(L3, L.code, len) : L3 \in
          {AddString(L2, L.code, len) : L2 \in
            {Output(L1, raw) : L1 \in {NewString(L, L.code)}}}}} : TRUE

\* a plausible slip: the previous string is kept
ClearKeepsPrev(L) ==
    [L EXCEPT !.codeBits = 9, !.nextBump = 511, !.sEnd = SOf(L, 257),
              !.nextCode = 258]

\* if (code == CLEAR_CODE) { ...; continue; }
ClearDropsBits(L) ==
    [L EXCEPT !.codeBits = 9, !.nextBump = 511, !.sEnd = SOf(L, 257),
              !.nextCode = 258, !.psLen = 0, !.nBits = 0]

Clear(L) ==
    [L EXCEPT !.codeBits = 9, !.nextBump = 511, !.sEnd = SOf(L, 257),
              !.nextCode = 258, !.psLen = 0]


(***************************************************************************)
(* The inputs                                                              *)
(***************************************************************************)
Variants == {"A", "C"}

CodeAlphabet == {65, CLEAR_CODE, EOF_CODE, 258, 300}

CodeSeqs == UNION {[1..k -> CodeAlphabet] : k \in 0..MaxCodes}

\* 'A','B','A','B','A', ClearCode, EOFCode with no ClearCode in front
LiteralsThenClear == <<65, 66, 65, 66, 65, CLEAR_CODE, EOF_CODE>>

\* the same text as an encoder writes it
Text == <<CLEAR_CODE, 65, 66, 258, 65, EOF_CODE>>

\* a code beyond the next free one, after a literal
Beyond == <<CLEAR_CODE, 65, 300>>

\* the next free code with no string before it, then a literal
EarlyNext == <<CLEAR_CODE, 258, 65>>

\* the next free code after a literal, twice
Repeats == <<CLEAR_CODE, 65, 258, 259, EOF_CODE>>

\* a stream that goes on after its EOFCode
PastEof == <<CLEAR_CODE, 65, EOF_CODE, 66, 66>>

NamedSeqs == {LiteralsThenClear, Text, Beyond, EarlyNext, Repeats, PastEof}

WholeStreams == {Pack9(cs) : cs \in CodeSeqs \cup NamedSeqs}

\* a stream may also stop one byte short
Streams == WholeStreams \cup
           {SubSeq(st, 1, Len(st) - 1) : st \in WholeStreams \ {<<>>}}

SrcBytes == {7, 250}

SmallSources == UNION {[1..k -> SrcBytes] : k \in 0..MaxSrc}

\* the shortest run that takes a table entry to 128 bytes: 1 + 2 + ... + 128
Zeros == [p \in 1..((128 * 129) \div 2) |-> 0]

\* a run that ends with a literal read while the previous string has 127
\* bytes: 1 + 2 + ... + 127 and one more
ZerosAndOne == [p \in 1..((127 * 128) \div 2 + 1) |-> 0]

\* more than 254 codes, so that the width grows
Ramp == [p \in 1..300 |-> (p - 1) % 256]

\* rows of pixels whose samples grow by one from pixel to pixel; a row
\* and the start of the next
Gradient == [p \in 1..(bytesPerRow + 9) |-> (((p - 1) % bytesPerRow) \div 3 + 1) % 256]

\* the first two pixels of a row, as a reader has to restore them
Summed == <<10, 20, 30, 15, 20, 30>>
Wrapped == <<10, 20, 30, 4, 20, 30>>

\* the strips written, each with or without differencing
Sources == (SmallSources \X BOOLEAN) \cup
           {<<Zeros, TRUE>>, <<Zeros, FALSE>>, <<ZerosAndOne, FALSE>>, <<Gradient, TRUE>>,
            <<Ramp, TRUE>>, <<Ramp, FALSE>>, <<Summed, TRUE>>, <<Wrapped, TRUE>>}

\* width of the k-th code after the leading ClearCode of a stream without
\* another one, as the decoder reads it: the table then holds the codes
\* below 257 + k
WidthAt(v, k) ==
    LET next == IF k = 1 THEN 258 ELSE 256 + k
    IN  IF next < 511 THEN 9
        ELSE IF next < 1023 THEN 10
        ELSE IF next < 2047 THEN 11
        ELSE IF next < maxCode \/ v = "C" THEN 12
        ELSE 13

\* ClearCode and then so many literals that the table runs over: the
\* (maxCode - 255)-th literal finds nextCode = maxCode + 1
FullCodes(v) ==
    [k \in 1..(maxCode - 254 + MaxTableOverrun) |->
        IF k = 1 THEN <<CLEAR_CODE, 9>> ELSE <<65, WidthAt(v, k - 1)>>]

\* the same with literals of many values and, for every fourth code, the
\* table entry made two codes earlier
MixedCodes(v) ==
    [k \in 1..(maxCode - 254 + MaxTableOverrun) |->
        IF k = 1 THEN <<CLEAR_CODE, 9>>
        ELSE IF k > 4 /\ (k - 1) % 4 = 0 THEN <<256 + (k - 1) - 2, WidthAt(v, k - 1)>>
        ELSE <<(k * 37) % 256, WidthAt(v, k - 1)>>]

\* a stream that grows the width to 10 bits and then has a ClearCode:
\* ClearCode, 254 literals of 9 bits, two of 10, ClearCode, 'B', EOFCode
GrowClear ==
    [k \in 1..260 |->
        IF k = 1 THEN <<CLEAR_CODE, 9>>
        ELSE IF k <= 255 THEN <<(k * 37) % 256, 9>>
        ELSE IF k <= 257 THEN <<65, 10>>
        ELSE IF k = 258 THEN <<CLEAR_CODE, 10>>
        ELSE IF k = 259 THEN <<66, 9>>
        ELSE <<EOF_CODE, 9>>]

\* the locals of decompressLZW on entry; the arrays s, sLen and strings
\* hold what the declarations initialise, ps nothing
Literals == AsTuple([i \in 1..258 |-> IF i <= 256 THEN i - 1 ELSE 0])

Entry ==
    /\ c = 0
    /\ incoming = IF variant = "A" THEN 0 ELSE Len(inBa)
    /\ iBuf = <<0, 0, 0, 0>>
    /\ nBits = 0
    /\ codeBits = 9
    /\ nextBump = 511
    /\ code = Junk
    /\ s = <<>>
    /\ sLen = <<>>
    /\ strings = Literals
    /\ sEnd = Wild
    /\ ps = <<>>
    /\ psLen = 0
    /\ nextCode = 258
    /\ n = 0
    /\ out = <<>>
    /\ dec = <<>>
    /\ pBuf = 0
    /\ pc = "run"
    /\ call = 1
    /\ out1 = <<>>
    /\ codeMask = BuiltMask
    /\ pending = 0
    /\ availBits = 0
    /\ currCode = 257
    /\ dict = <<>>
    /\ width = WidthEntry

Configured ==
    /\ variant \in Variants
    /\ predictor \in (IF variant = "A" THEN {TRUE} ELSE BOOLEAN)

\* a stream of any content
InitRaw ==
    /\ Configured
    /\ inBa \in Streams
    /\ src = NoSrc
    /\ outLen \in {SmallOut, uncompressedLengthFirstStrip}
    /\ Entry

\* a strip that was written with or without differencing, read by a
\* decoder configured alike into a buffer of the strip's size
InitEncoded ==
    /\ Configured
    /\ \E sp \in Sources :
         /\ predictor = sp[2]
         /\ src = AsTuple(sp[1])
         /\ inBa = Encode(AsTuple(IF sp[2] THEN Diff(sp[1]) ELSE sp[1]))
    /\ outLen = Len(src)
    /\ Entry

Init == InitRaw \/ InitEncoded

\* a stream that fills the table, and two short ones
InitFull ==
    /\ Configured
    /\ predictor
    /\ inBa \in {Pack(FullCodes(variant)), Pack(MixedCodes(variant)), Pack(GrowClear),
                 Pack9(<<CLEAR_CODE, 65, EOF_CODE>>), Pack9(<<CLEAR_CODE, 65>>)}
    /\ src = NoSrc
    /\ outLen = uncompressedLengthFirstStrip
    /\ Entry

(***************************************************************************)
(* decompressLZW: one action per kind of loop iteration                    *)
(***************************************************************************)
\* the locals after the iteration
Stored(L) ==
    /\ c' = L.c
    /\ incoming' = L.incoming
    /\ iBuf' = L.iBuf
    /\ nBits' = L.nBits
    /\ code' = L.code
    /\ s' = L.s
    /\ sLen' = L.sLen
    /\ strings' = L.strings
    /\ sEnd' = L.sEnd
    /\ ps' = L.ps
    /\ psLen' = L.psLen
    /\ nextCode' = L.nextCode
    /\ codeBits' = L.codeBits
    /\ nextBump' = L.nextBump
    /\ n' = L.n
    /\ out' = L.out
    /\ dec' = L.dec
    /\ pBuf' = L.pBuf

\* a plausible slip: the test is made against the wrong constant
IsEofOff(cd) == cd = EOF_CODE + 1

\* the test of if (code == EOF_CODE)
IsEof(cd) == cd = EOF_CODE

\* an iteration that reads ClearCode
ClearStep ==
    /\ pc = "run"
    /\ LoopCond(Locals)
    /\ \E g1 \in G1(Locals), g2 \in G2(Locals) :
         LET r == GetNextCode(Locals, g1, g2)
         IN  /\ r.code = CLEAR_CODE
             /\ Stored(Clear(r))
             /\ pc' \in After(r, "run")
    /\ UNCHANGED <<cfgVars, width, inBa, call, out1, slotVars>>

\* a plausible slip: the EOFCode is skipped like a ClearCode (continue)
EofContinues ==
    /\ pc = "run"
    /\ LoopCond(Locals)
    /\ \E g1 \in G1(Locals), g2 \in G2(Locals) :
         LET r == GetNextCode(Locals, g1, g2)
         IN  /\ IsEof(r.code)
             /\ Stored(r)
             /\ pc' \in After(r, "run")
    /\ UNCHANGED <<cfgVars, width, inBa, call, out1, slotVars>>

\* an iteration that reads EOFCode: return
EofStep ==
    /\ pc = "run"
    /\ LoopCond(Locals)
    /\ \E g1 \in G1(Locals), g2 \in G2(Locals) :
         LET r == GetNextCode(Locals, g1, g2)
         IN  /\ IsEof(r.code)
             /\ Stored(r)
             /\ pc' \in After(r, "done")
    /\ UNCHANGED <<cfgVars, width, inBa, call, out1, slotVars>>

\* sLen[code] of an entry that was never written is whatever the stack holds
LenChoices(L, cd) ==
    IF cd \in {CLEAR_CODE, EOF_CODE} \/ (cd >= 258 /\ cd - 257 > Len(L.sLen))
    THEN GarbageLens ELSE {0}

\* an iteration that reads any other code: resolve it, write its string,
\* grow the table
ResolveStep ==
    /\ pc = "run"
    /\ LoopCond(Locals)
    /\ \E g1 \in G1(Locals), g2 \in G2(Locals) :
         \E r \in {GetNextCode(Locals, g1, g2)} :
           /\ r.code # CLEAR_CODE
           /\ ~IsEof(r.code)
           /\ \E L1 \in {NewString(r, r.code)} :
              \E gl \in LenChoices(L1, r.code) :
                LET len == SLenOf(L1, r.code, gl)
                    ptr == SOf(L1, r.code)
                IN  IF len < 0
                    THEN \* the loop counter is (uint32_t)sLen[code]: the loop
                         \* copies the entry's len + 256 bytes and runs on
                         \* until an access faults
                         \E cells \in {ArenaRead(L1.strings, ptr, len + 256)} :
                         \E gm \in (IF HasJunk(cells) THEN GarbageBytes ELSE {0}) :
                         \E raw \in {Res(cells, gm)} :
                         \E L5 \in {Output(L1, raw)} :
                           /\ Stored(L5)
                           /\ pc' = "crash"
                    ELSE \E cells \in {ArenaRead(L1.strings, ptr, len)} :
                         \E gm \in (IF HasJunk(cells) THEN GarbageBytes ELSE {0}) :
                         \E raw \in {Res(cells, gm)} :
                         \E L5 \in {Body(r, len, raw)} :
                           /\ Stored(L5)
                           /\ pc' \in After(L5, "run")
    /\ UNCHANGED <<cfgVars, width, inBa, call, out1, slotVars>>

\* the while condition fails: return ret
Finish ==
    /\ pc = "run"
    /\ ~LoopCond(Locals)
    /\ pc' = "done"
    /\ UNCHANGED <<cfgVars, width, inBa, call, out1, bitVars, tabVars, outVars, slotVars>>

\* one iteration in which every value read is one the program wrote and
\* every access lies inside its object, if the next iteration is such a one
Iteration(L) ==
    IF L.stop \/ ~LoopCond(L) \/ G1(L) # {0} \/ G2(L) # {0}
    THEN [L EXCEPT !.stop = TRUE]
    ELSE LET r   == GetNextCode(L, 0, 0)
             L1  == NewString(r, r.code)
             len == SLenOf(L1, r.code, 0)
             raw == ArenaRead(L1.strings, SOf(L1, r.code), len)
             L5  == IF r.code = CLEAR_CODE THEN Clear(r) ELSE Body(r, len, raw)
         IN  IF \/ IsEof(r.code)
                \/ /\ r.code # CLEAR_CODE
                   /\ (LenChoices(L1, r.code) # {0} \/ len < 0 \/ HasJunk(raw))
                \/ L5.ub
             THEN [L EXCEPT !.stop = TRUE]
             ELSE L5

\* k iterations, one half of them after the other
RECURSIVE Iterations(_, _)
Iterations(L, k) ==
    IF k <= 1 THEN Iteration(L)
    ELSE LET head == Iterations(L, k \div 2)
         IN  IF head.stop THEN head ELSE Iterations(head, k - k \div 2)

\* BurstLen iterations of the loop at once, taken where the table has grown
\* by another BurstLen entries: what BurstLen steps of the three kinds
\* above do, in a single step
Burst ==
    /\ pc = "run"
    /\ nextCode % BurstLen = 0
    /\ LET L == Iterations(Locals, BurstLen)
       IN  /\ ~L.stop
           /\ Stored(L)
    /\ pc' = "run"
    /\ UNCHANGED <<cfgVars, width, inBa, call, out1, slotVars>>

\* main calls decompressLZW again on the same buffers; the locals without
\* an initialiser find what the earlier call left on the stack, or not
Recall ==
    /\ pc = "done"
    /\ call < MaxCalls
    /\ call' = call + 1
    /\ out1' = out
    /\ pc' = "run"
    /\ c' = 0
    /\ incoming' = IF variant = "A" THEN 0 ELSE Len(inBa)
    /\ iBuf' = <<0, 0, 0, 0>>
    /\ nBits' = 0
    /\ codeBits' = 9
    /\ nextBump' = 511
    /\ psLen' = 0
    /\ nextCode' = 258
    /\ n' = 0
    /\ out' = <<>>
    /\ dec' = <<>>
    /\ pBuf' = 0
    /\ \E stale \in BOOLEAN :
         IF stale
         THEN /\ strings' = Literals \o SubSeq(strings, 259, Len(strings))
              /\ UNCHANGED <<code, s, sLen, sEnd, ps>>
         ELSE /\ strings' = Literals
              /\ code' = Junk
              /\ s' = <<>>
              /\ sLen' = <<>>
              /\ ps' = <<>>
              /\ sEnd' = Wild
    /\ UNCHANGED <<cfgVars, width, inBa, slotVars>>

Next ==
    \/ ClearStep
    \/ EofStep
    \/ ResolveStep
    \/ Finish
    \/ Burst
    \/ Recall

Spec == Init /\ [][Next]_vars

\* the decodes of a stream that fills the table
SpecFull == InitFull /\ [][Next]_vars

\* a strip without a repeated pair of bytes: one code per byte
Steps == [p \in 1..StepsLen |-> p - 1]

\* the streams of the kinds that end a decode differently: empty, with and
\* without EOFCode, cut in the middle of a code, with a code whose length
\* was never written
LiveSeqs == NamedSeqs \cup {<<>>, <<65>>, <<300>>, <<CLEAR_CODE, 65>>}

LiveWhole == {Pack9(cs) : cs \in LiveSeqs}

LiveStreams == LiveWhole \cup
               {SubSeq(st, 1, Len(st) - 1) : st \in LiveWhole \ {<<>>}}

InitLive ==
    /\ Configured
    /\ \/ /\ inBa \in LiveStreams
          /\ src = NoSrc
          /\ outLen = uncompressedLengthFirstStrip
       \/ /\ ~predictor
          /\ inBa = Encode(AsTuple(Steps))
          /\ src = AsTuple(Steps)
          /\ outLen = Len(src)
    /\ Entry

\* the program runs on: a loop that can take its next iteration takes it,
\* and main makes its next call
SpecLive == InitLive /\ [][Next]_vars /\ WF_vars(Next)

(***************************************************************************)
(* Properties                                                              *)
(***************************************************************************)
Returned == pc = "done"
Stopped == pc \in {"done", "crash"}

\* C1: the decode of the stream the reference encoder made of a byte
\* sequence B returns having written exactly the bytes of B, in order.
RoundTrip == (src # NoSrc /\ Stopped) => (Returned /\ out = src)

\* C2: no output byte is written at an index at or beyond the length of the
\* caller's output buffer (stated for the decodes of the text ABABA, which
\* read nothing but the stream and the table).
OutputWithinBuffer == inBa = Pack9(Text) => n <= outLen

\* C3: an iteration that reads, from the bytes of the stream, a code which
\* is neither ClearCode nor EOFCode and is greater than the next free code
\* ends the decode without writing a byte and without adding a table entry.
CorruptStreamAborts ==
    [][(/\ pc = "run"
        /\ c' > c
        /\ c' <= Len(inBa)
        /\ code' \notin {CLEAR_CODE, EOF_CODE}
        /\ code' > nextCode)
          => (pc' # "run" /\ n' = n /\ out' = out /\ nextCode' = nextCode)]_vars

\* C4: the next free code never exceeds 4095 and no slot of s above 4095 is
\* written, however long the stream goes on without a ClearCode.
TableBounded == nextCode <= maxCode /\ Len(s) + 257 <= maxCode

\* C5: no input byte is read at an index at or beyond the input length.
InputWithinBuffer == c <= Len(inBa)

\* C6: a later decode of the same input writes what the earlier decode of
\* it wrote, the same bytes and the same count.
Deterministic == (call > 1 /\ Returned) => out = out1

\* C7: with the predictor enabled the byte written at a row position below
\* 3 is the decoded byte, and at any other position it is the decoded byte
\* plus the byte written 3 positions earlier, modulo 256; decoded
\* 10,20,30,5,0,0 gives 10,20,30,15,20,30 and decoded 250 on top of 10 gives 4.
PredictorArithmetic ==
    /\ predictor =>
         /\ Len(dec) = Len(out)
         /\ \A p \in 1..Len(out) :
              out[p] = IF (p - 1) % bytesPerRow < 3 THEN dec[p]
                       ELSE (dec[p] + out[p - 3]) % 256
    /\ (src = Summed /\ Returned) => (dec = <<10, 20, 30, 5, 0, 0>> /\ out = Summed)
    /\ (src = Wrapped /\ Returned) => (dec = <<10, 20, 30, 250, 0, 0>> /\ out = Wrapped)

\* a decode with the predictor that went past the first row and had a sum
\* above 255 to truncate
PredictorWitness ==
    /\ predictor
    /\ Returned
    /\ Len(out) > bytesPerRow + 3
    /\ \E p \in 4..Len(out) :
         (p - 1) % bytesPerRow >= 3 /\ dec[p] + out[p - 3] >= 256

\* C8: with the predictor disabled the output is the concatenation, in
\* stream order, of the strings resolved for the codes, each byte unchanged.
PlainCopy == ~predictor => out = dec

\* the plain decode of the text ABABA, in which a table string is used
PlainWitness ==
    /\ ~predictor
    /\ Returned
    /\ inBa = Pack9(Text)
    /\ out = <<65, 66, 65, 66, 65>>

\* C9: the first decode of the literal codes 'A','B','A','B','A', ClearCode,
\* EOFCode with the predictor disabled and room for the output returns
\* having written the five bytes ABABA.
LiteralRun ==
    (/\ inBa = Pack9(LiteralsThenClear)
     /\ ~predictor
     /\ outLen >= 5
     /\ call = 1
     /\ Stopped)
        => (Returned /\ out = <<65, 66, 65, 66, 65>> /\ n = 5)

ClearEof == Pack9(<<CLEAR_CODE, EOF_CODE>>)

\* C10: the decode of the stream that is ClearCode followed by EOFCode writes
\* no output byte and returns at the EOFCode.
ClearThenEof == inBa = ClearEof => (n = 0 /\ out = <<>> /\ pc # "crash")

\* that decode has returned from the test for EOFCode
ClearThenEofWitness == inBa = ClearEof /\ Returned /\ code = EOF_CODE /\ c = 3

\* a step that is one iteration of the loop and read its code from the
\* bytes of the stream
OneCode == pc = "run" /\ c' > c /\ c' - c <= 2 /\ c' <= Len(inBa)

\* C11: the iteration that reads EOFCode ends the decode, writes no byte and
\* adds no table entry, whatever follows the EOFCode in the input; the
\* stream ClearCode, 'A', EOFCode, 'B', 'B' gives the one byte 'A'.
EofStops ==
    /\ [][(OneCode /\ code' = EOF_CODE)
            => /\ pc' = "done"
               /\ n' = n /\ out' = out /\ dec' = dec
               /\ nextCode' = nextCode /\ s' = s /\ sLen' = sLen
               /\ strings' = strings]_vars
    /\ [](inBa = Pack9(PastEof) => (pc # "crash" /\ Len(out) <= 1))
    /\ []((inBa = Pack9(PastEof) /\ Returned) => out = <<65>>)

\* a decode that returned at an EOFCode with input left over and a byte
\* written
EofStopsWitness ==
    /\ Returned
    /\ code = EOF_CODE
    /\ c < Len(inBa)
    /\ inBa = Pack9(PastEof)
    /\ out = <<65>>

BitAt(i) == (inBa[(i \div 8) + 1] \div 2^(7 - (i % 8))) % 2

\* the unsigned integer formed by the w bits from bit offset off on
RECURSIVE BitsValue(_, _)
BitsValue(off, w) ==
    IF w = 0 THEN 0 ELSE 2 * BitsValue(off, w - 1) + BitAt(off + w - 1)

\* the bits consumed so far: 8 per byte read, less those still in iBuf
BitOffset == 8 * c - nBits

\* C13: the code an iteration extracts with a width of 9 to 12 bits is the
\* unsigned integer formed by the next codeBits bits of the input, most
\* significant bit first, and the reader moves on by that many bits.
BitReaderResult ==
    [][(OneCode /\ codeBits \in 9..12)
         => /\ code' = BitsValue(BitOffset, codeBits)
            /\ BitOffset' = BitOffset + codeBits]_vars

\* codes of each width from 9 to 12 have been read; the one now in code
\* was read with 12 bits and straddles three bytes
BitReaderWitness ==
    /\ pc = "run"
    /\ codeBits = 12
    /\ nextCode > 2047 + 3
    /\ nBits \in 1..3
    /\ code > 2047
    /\ code = BitsValue(BitOffset - 12, 12)

\* the width of the early change convention for a table whose next free
\* code is nc
EarlyWidth(nc) ==
    IF nc < 511 THEN 9 ELSE IF nc < 1023 THEN 10 ELSE IF nc < 2047 THEN 11 ELSE 12

\* the part of lo .. hi - 1 that lies below nc
Below(nc, lo, hi) == IF nc <= lo THEN 0 ELSE IF nc >= hi THEN hi - lo ELSE nc - lo

\* bits of a stream without a second ClearCode up to the code that made
\* the next free code nc: the ClearCode, the first code, and one code for
\* each entry 258 .. nc - 1, each with the width of the early change
BitsUpTo(nc) ==
    9 + 9 + 9 * Below(nc, 258, 511) + 10 * Below(nc, 511, 1023)
          + 11 * Below(nc, 1023, 2047) + 12 * Below(nc, 2047, maxCode)

\* C15: a code read while the next free code is below 511 is read with 9
\* bits, the first one read once it has reached 511 with 10, once it has
\* reached 1023 with 11 and once it has reached 2047 with 12.
EarlyChange ==
    /\ [][(OneCode /\ nextCode < maxCode)
            => /\ codeBits = EarlyWidth(nextCode)
               /\ BitOffset' = BitOffset + codeBits]_vars
    /\ [](pc = "run" /\ nextCode \in 259..(maxCode - 1)
            => BitOffset = BitsUpTo(nextCode))

\* the first code of 12 bits has just been read: 255 codes of 9 bits, 512
\* of 10 and 1024 of 11 came before it
EarlyChangeWitness ==
    /\ pc = "run"
    /\ nextCode = 2048
    /\ codeBits = 12
    /\ BitOffset = 255 * 9 + 512 * 10 + 1024 * 11 + 12

\* C16: the code width is between 9 and 12 at every code read, and every
\* code extracted is in 0 .. 4095.
WidthInRange ==
    /\ codeBits \in 9..12
    /\ code # Junk => code \in 0..(TableSize - 1)

\* a step that is one iteration of the loop
OneIteration == pc = "run" /\ c' > c /\ c' - c <= 2

\* C17: the code width is 9 when a decode starts and it is never below 9;
\* an iteration lowers it only when the code it read is ClearCode.
WidthMonotone ==
    /\ [](codeBits >= 9)
    /\ []((pc = "run" /\ c = 0) => codeBits = 9)
    /\ [][(OneIteration /\ code' # CLEAR_CODE) => codeBits' >= codeBits]_vars

\* the decode of the stream whose width grew to 10 bits before its second
\* ClearCode has returned at the EOFCode
WidthMonotoneWitness ==
    /\ inBa = Pack(GrowClear)
    /\ Returned
    /\ code = EOF_CODE
    /\ codeBits = 9
    /\ n = 257

\* C18: an iteration that reads ClearCode, in whatever state, leaves the
\* next free code at 258, the width at 9 and the previous string empty,
\* and every literal code k resolves to the one byte k.
ClearResets ==
    [][(OneIteration /\ code' = CLEAR_CODE)
         => /\ nextCode' = 258
            /\ codeBits' = 9
            /\ psLen' = 0
            /\ \A k \in 0..255 :
                 ArenaRead(strings', SOf(Locals', k), SLenOf(Locals', k, Junk)) = <<k>>]_vars

\* a ClearCode was read after five literals and four insertions
ClearResetsWitness ==
    /\ inBa = Pack9(LiteralsThenClear)
    /\ pc = "run"
    /\ code = CLEAR_CODE
    /\ n = 5
    /\ nextCode = 258
    /\ psLen = 0

\* the string the table holds for the code k
EntryOf(L, k) == ArenaRead(L.strings, SOf(L, k), SLenOf(L, k, Junk))

\* the previous string
PrevString(L) == PsRead(L, L.psLen)

FirstOf(str) == IF str = <<>> THEN Junk ELSE str[1]

\* C19: an iteration that reads a code below the next free code, other than
\* the two reserved ones, while the previous string is not empty emits the
\* table entry of the code, adds at the next free code the previous string
\* followed by the first byte emitted, and leaves the emitted string as the
\* previous string.
KnownCodeStep ==
    [][(OneCode /\ code' \notin {CLEAR_CODE, EOF_CODE} /\ code' < nextCode /\ psLen > 0)
         => /\ dec' = dec \o EntryOf(Locals, code')
            /\ nextCode' = nextCode + 1
            /\ EntryOf(Locals', nextCode)
                 = PrevString(Locals) \o <<FirstOf(EntryOf(Locals, code'))>>
            /\ PrevString(Locals') = EntryOf(Locals, code')]_vars

\* the previous string followed by its own first byte
PrevPlusFirst(L) == PrevString(L) \o <<FirstOf(PrevString(L))>>

\* C20: an iteration that reads the next free code emits the previous
\* string followed by the first byte of the previous string, leaves that
\* string as the table entry of the code and as the previous string, and
\* raises the next free code by exactly one.
PendingCodeStep ==
    [][(OneCode /\ code' = nextCode)
         => /\ dec' = dec \o PrevPlusFirst(Locals)
            /\ EntryOf(Locals', code') = PrevPlusFirst(Locals)
            /\ nextCode' = nextCode + 1
            /\ PrevString(Locals') = PrevPlusFirst(Locals)]_vars

(***************************************************************************)
(* The slot generation of the decoder, src/unnamed/part_000:340-459        *)
(* (variant "E"): the table is char dict[DICT_SIZE], entry k in the 32     *)
(* bytes from k * DICT_STRING_SIZE on, and the reader masks its bit buffer *)
(* with the global codeMask that buildCodeMask fills.                      *)
(***************************************************************************)
MAXCODE == 4093
DICT_STRING_SIZE == 32
DICT_SIZE == DICT_STRING_SIZE * 4096

SlotLocals ==
    [c |-> c, incoming |-> incoming, pending |-> pending, availBits |-> availBits,
     codeBits |-> codeBits, currCode |-> currCode, nextBump |-> nextBump,
     code |-> code, dict |-> dict, sLen |-> sLen, ps |-> ps, psLen |-> psLen,
     nextCode |-> nextCode, n |-> n, out |-> out, dec |-> dec, pBuf |-> pBuf,
     ub |-> FALSE, fatal |-> FALSE, stop |-> FALSE]

SlotStored(L) ==
    /\ c' = L.c
    /\ incoming' = L.incoming
    /\ pending' = L.pending
    /\ availBits' = L.availBits
    /\ codeBits' = L.codeBits
    /\ currCode' = L.currCode
    /\ nextBump' = L.nextBump
    /\ code' = L.code
    /\ dict' = L.dict
    /\ sLen' = L.sLen
    /\ ps' = L.ps
    /\ psLen' = L.psLen
    /\ nextCode' = L.nextCode
    /\ n' = L.n
    /\ out' = L.out
    /\ dec' = L.dec
    /\ pBuf' = L.pBuf
    /\ UNCHANGED <<iBuf, nBits, s, strings, sEnd>>

\* x & y of two values that are not negative
RECURSIVE BitAnd(_, _)
BitAnd(x, y) ==
    IF x = 0 \/ y = 0 THEN 0
    ELSE (x % 2) * (y % 2) + 2 * BitAnd(x \div 2, y \div 2)

\* dict is kept slot by slot: d[k + 1] holds the cells of the 32 bytes
\* from k * DICT_STRING_SIZE on, up to the highest one written
InDict(p, k) == p >= 0 /\ p + k <= DICT_SIZE

\* dict[p], Junk where nothing was written
DictCell(d, p) ==
    LET sl == (p \div DICT_STRING_SIZE) + 1
        j  == (p % DICT_STRING_SIZE) + 1
    IN  IF InDict(p, 1) /\ sl <= Len(d) /\ j <= Len(d[sl]) THEN d[sl][j] ELSE Junk

DictRead(d, p, k) == [i \in 1..k |-> DictCell(d, p + i - 1)]

\* dict[p] = v (nothing is kept of a store that misses dict)
DictPut(d, p, v) ==
    LET sl == (p \div DICT_STRING_SIZE) + 1
        j  == (p % DICT_STRING_SIZE) + 1
    IN  IF ~InDict(p, 1) THEN d
        ELSE IF sl <= Len(d) THEN [d EXCEPT ![sl] = SetAt(d[sl], j, v)]
        ELSE d \o [i \in 1..(sl - Len(d) - 1) |-> <<>>] \o <<SetAt(<<>>, j, v)>>

\* d after vals were stored from offset p on
RECURSIVE DictWrite(_, _, _)
DictWrite(d, p, vals) ==
    IF vals = <<>> THEN d
    ELSE DictWrite(DictPut(d, p, vals[1]), p + 1, Tail(vals))

\* while (availBits < codeBits): one more byte into pending; gs[1], gs[2]
\* are what the first and the later reads past the end of inBa return
RECURSIVE Fill(_, _)
Fill(L, gs) ==
    IF L.availBits >= L.codeBits THEN L
    ELSE Fill([L EXCEPT
                 !.pending   = L.pending * 256 + InByte(L.c, gs[1]),
                 !.availBits = L.availBits + 8,
                 !.c         = L.c + 1,
                 !.incoming  = L.incoming + 1,
                 !.ub        = L.ub \/ L.c >= Len(inBa),
                 !.fatal     = L.fatal \/ L.c >= Len(inBa) + MaxOverRead],
              <<gs[2], gs[2]>>)

\* GetNextCode of the slot generation
ReadCode(L, gs) ==
    LET F == Fill(L, gs)
        a == F.availBits - F.codeBits
    IN  [F EXCEPT !.code = F.pending \div 2^a, !.availBits = a,
                  !.pending = BitAnd(F.pending, codeMask[a])]

BytesNeeded(L) ==
    IF L.availBits >= L.codeBits THEN 0 ELSE (L.codeBits - L.availBits + 7) \div 8

FillChoices(L) ==
    IF L.c + BytesNeeded(L) > Len(inBa) THEN GarbageBytes \X GarbageBytes
    ELSE {<<0, 0>>}

\* if (code == CLEAR_CODE)
SlotClear(L) ==
    [L EXCEPT
       !.codeBits = 9, !.currCode = 257, !.nextBump = 512,
       !.dict     = [sl \in 1..Max(Len(L.dict), 256) |->
                       IF sl > 256 THEN L.dict[sl]
                       ELSE IF sl <= Len(L.dict) /\ L.dict[sl] # <<>>
                       THEN [L.dict[sl] EXCEPT ![1] = sl - 1]
                       ELSE <<sl - 1>>],
       !.nextCode = 258,
       !.ps       = [i \in 1..DICT_STRING_SIZE |-> 0],
       !.psLen    = 0]

\* currCode++; if (currCode == nextBump - 1)
SlotBump(L) ==
    IF L.currCode + 1 = L.nextBump - 1
    THEN [L EXCEPT !.currCode = L.currCode + 1, !.nextBump = L.nextBump * 2,
                   !.codeBits = L.codeBits + 1]
    ELSE [L EXCEPT !.currCode = L.currCode + 1]

SlotOff(cd) == cd * DICT_STRING_SIZE

\* if (code >= nextCode): dict[code] = ps + ps[0]
SlotNewString(L) ==
    IF L.code < L.nextCode THEN L
    ELSE LET copied == DictWrite(L.dict, SlotOff(L.code), PsRead(L, L.psLen))
         IN  [L EXCEPT
                !.dict = DictWrite(copied, SlotOff(L.code) + L.psLen, PsRead(L, 1)),
                !.sLen = SetAt(L.sLen, L.code - 257, ToInt8(L.psLen + 1)),
                !.ub   = \/ L.ub
                         \/ ~InDict(SlotOff(L.code), L.psLen + 1)
                         \/ L.psLen > DICT_STRING_SIZE
                         \/ L.code >= TableSize]

\* sLen[k]: 1 for the 256 bytes memset sets, gl where nothing was written
SlotLen(L, k, gl) ==
    IF k < 256 THEN 1
    ELSE IF k >= 258 /\ k - 257 <= Len(L.sLen) /\ L.sLen[k - 257] # Junk
    THEN L.sLen[k - 257] ELSE gl

SlotLenChoices(L, k) ==
    IF k < 256 \/ (k >= 258 /\ k - 257 <= Len(L.sLen) /\ L.sLen[k - 257] # Junk)
    THEN {0} ELSE GarbageLens

\* the output loop over the bytes raw of dict[code], through pBuf
SlotOutput(L, raw) ==
    LET sh == EmitShift([out |-> L.out, n |-> L.n, pBuf |-> L.pBuf], raw, 1, Len(raw))
    IN  [L EXCEPT !.out = sh.out, !.pBuf = sh.pBuf, !.n = L.n + Len(raw),
                  !.dec = L.dec \o raw,
                  !.ub  = L.ub \/ L.n + Len(raw) > outLen]

\* the second memcpy of the insertion moves sLen[code] bytes of dict[code]
\* (a source byte inside the destination is indeterminate)
SlotTail(d, from, to, len) ==
    [j \in 1..len |->
       IF from + j - 1 >= to /\ from + j - 1 < to + len THEN Junk
       ELSE DictRead(d, from + j - 1, 1)[1]]

\* if (psLen && nextCode <= MAXCODE): dict[nextCode++] = ps + dict[code]
SlotAddString(L, len) ==
    IF L.psLen = 0 \/ L.nextCode > MAXCODE THEN L
    ELSE LET to     == SlotOff(L.nextCode)
             copied == DictWrite(L.dict, to, PsRead(L, L.psLen))
             tail   == SlotTail(copied, SlotOff(L.code), to + L.psLen, len)
         IN  [L EXCEPT
                !.dict     = DictWrite(copied, to + L.psLen, tail),
                !.sLen     = SetAt(L.sLen, L.nextCode - 257, ToInt8(L.psLen + 1)),
                !.nextCode = L.nextCode + 1,
                !.ub       = \/ L.ub
                             \/ ~InDict(to, L.psLen + len)
                             \/ L.psLen > DICT_STRING_SIZE]

\* ps = dict[code]
SlotCopyPrev(L, len) ==
    [L EXCEPT
       !.ps    = PsWrite(L, DictRead(L.dict, SlotOff(L.code), len)),
       !.psLen = len,
       !.ub    = \/ L.ub
                 \/ ~InDict(SlotOff(L.code), len)
                 \/ len > DICT_STRING_SIZE]

\* the body after the tests for the two reserved codes, for a length that
\* is not negative
SlotBody(L1, len, raw) ==
    CHOOSE L4 \in
      {SlotCopyPrev(L3, len) : L3 \in
        {SlotAddString(L2, len) : L2 \in {SlotOutput(L1, raw)}}} : TRUE

SlotLoopCond(L) == L.incoming < Len(inBa)

\* an iteration that reads CLEAR_CODE
SlotClearStep ==
    /\ pc = "run"
    /\ SlotLoopCond(SlotLocals)
    /\ \E gs \in FillChoices(SlotLocals) :
         \E r \in {ReadCode(SlotLocals, gs)} :
           /\ r.code = CLEAR_CODE
           /\ SlotStored(SlotClear(r))
           /\ pc' \in After(r, "run")
    /\ UNCHANGED <<cfgVars, width, inBa, call, out1, codeMask>>

\* an iteration that reads EOF_CODE: break
SlotEofStep ==
    /\ pc = "run"
    /\ SlotLoopCond(SlotLocals)
    /\ \E gs \in FillChoices(SlotLocals) :
         \E r \in {ReadCode(SlotLocals, gs)} :
           /\ r.code = EOF_CODE
           /\ SlotStored(r)
           /\ pc' \in After(r, "done")
    /\ UNCHANGED <<cfgVars, width, inBa, call, out1, codeMask>>

\* an iteration that reads any other code
SlotResolveStep ==
    /\ pc = "run"
    /\ SlotLoopCond(SlotLocals)
    /\ \E gs \in FillChoices(SlotLocals) :
         \E r \in {ReadCode(SlotLocals, gs)} :
           /\ r.code \notin {CLEAR_CODE, EOF_CODE}
           /\ \E L1 \in {SlotNewString(SlotBump(r))} :
              \E gl \in SlotLenChoices(L1, r.code) :
              \E len \in {SlotLen(L1, r.code, gl)} :
                IF len < 0
                THEN \* the loop counter is (uint32_t)sLen[code]: the loop
                     \* runs on until an access faults
                     \E cells \in {DictRead(L1.dict, SlotOff(r.code), len + 256)} :
                     \E gm \in (IF HasJunk(cells) THEN GarbageBytes ELSE {0}) :
                     \E L2 \in {SlotOutput(L1, Res(cells, gm))} :
                       /\ SlotStored(L2)
                       /\ pc' = "crash"
                ELSE \E cells \in {DictRead(L1.dict, SlotOff(r.code), len)} :
                     \E gm \in (IF HasJunk(cells) THEN GarbageBytes ELSE {0}) :
                     \E L4 \in {SlotBody(L1, len, Res(cells, gm))} :
                       /\ SlotStored(L4)
                       /\ pc' \in After(L4, "run")
    /\ UNCHANGED <<cfgVars, width, inBa, call, out1, codeMask>>

\* the while condition fails
SlotFinish ==
    /\ pc = "run"
    /\ ~SlotLoopCond(SlotLocals)
    /\ pc' = "done"
    /\ UNCHANGED <<cfgVars, width, inBa, call, out1, bitVars, tabVars, outVars, slotVars>>

\* one iteration in which every value read is one the program wrote and
\* every access lies inside its object, if the next iteration is such a one
SlotIteration(L) ==
    IF L.stop \/ ~SlotLoopCond(L) \/ FillChoices(L) # {<<0, 0>>}
    THEN [L EXCEPT !.stop = TRUE]
    ELSE LET r   == ReadCode(L, <<0, 0>>)
             L1  == SlotNewString(SlotBump(r))
             len == SlotLen(L1, r.code, 0)
             raw == DictRead(L1.dict, SlotOff(r.code), len)
             L4  == IF r.code = CLEAR_CODE THEN SlotClear(r) ELSE SlotBody(L1, len, raw)
         IN  IF \/ r.code = EOF_CODE
                \/ /\ r.code # CLEAR_CODE
                   /\ (SlotLenChoices(L1, r.code) # {0} \/ len < 0 \/ HasJunk(raw))
                \/ L4.ub
             THEN [L EXCEPT !.stop = TRUE]
             ELSE L4

\* k iterations, one half of them after the other
RECURSIVE SlotIterations(_, _)
SlotIterations(L, k) ==
    IF k <= 1 THEN SlotIteration(L)
    ELSE LET head == SlotIterations(L, k \div 2)
         IN  IF head.stop THEN head ELSE SlotIterations(head, k - k \div 2)

\* BurstLen iterations of the loop at once, taken where another BurstLen
\* codes have been counted: what BurstLen steps of the three kinds above
\* do, in a single step
SlotBurst ==
    /\ pc = "run"
    /\ currCode % BurstLen = 0
    /\ LET L == SlotIterations(SlotLocals, BurstLen)
       IN  /\ ~L.stop
           /\ SlotStored(L)
    /\ pc' = "run"
    /\ UNCHANGED <<cfgVars, width, inBa, call, out1, codeMask>>

\* buildCodeMask(), called by the code around the decoder before a call
BuildCodeMask ==
    /\ pc = "run"
    /\ incoming = 0
    /\ codeMask # BuiltMask
    /\ codeMask' = BuiltMask
    /\ UNCHANGED <<cfgVars, width, inBa, pc, call, out1, bitVars, tabVars, outVars,
                   pending, availBits, currCode, dict>>

\* the locals at the entry of a call; dict, ps and the lengths from 256 on
\* hold what the stack holds
SlotEntry ==
    /\ c = 0
    /\ incoming = 0
    /\ pending = 0
    /\ availBits = 0
    /\ codeBits = 9
    /\ currCode = 257
    /\ nextBump = 512
    /\ code = Junk
    /\ dict = <<>>
    /\ sLen = <<>>
    /\ ps = <<>>
    /\ psLen = 0
    /\ nextCode = 258
    /\ n = 0
    /\ out = <<>>
    /\ dec = <<>>
    /\ pBuf = 0
    /\ iBuf = <<0, 0, 0, 0>>
    /\ nBits = 0
    /\ s = <<>>
    /\ strings = <<>>
    /\ sEnd = Wild
    /\ width = WidthEntry

\* the function is called again on the same buffers
SlotRecall ==
    /\ pc = "done"
    /\ call < MaxCalls
    /\ call' = call + 1
    /\ out1' = out
    /\ pc' = "run"
    /\ c' = 0
    /\ incoming' = 0
    /\ pending' = 0
    /\ availBits' = 0
    /\ codeBits' = 9
    /\ currCode' = 257
    /\ nextBump' = 512
    /\ psLen' = 0
    /\ nextCode' = 258
    /\ n' = 0
    /\ out' = <<>>
    /\ dec' = <<>>
    /\ pBuf' = 0
    /\ \E stale \in BOOLEAN :
         IF stale THEN UNCHANGED <<code, dict, sLen, ps>>
         ELSE /\ code' = Junk
              /\ dict' = <<>>
              /\ sLen' = <<>>
              /\ ps' = <<>>
    /\ UNCHANGED <<cfgVars, width, inBa, codeMask, iBuf, nBits, s, strings, sEnd>>

\* short streams, whole or one byte short
SlotWhole == {Pack9(cs) : cs \in LiveSeqs \ {LiteralsThenClear}}
SlotStreams == SlotWhole \cup
               {SubSeq(st, 1, Len(st) - 1) : st \in SlotWhole \ {<<>>}}

\* static storage starts zeroed
InitSlot ==
    /\ variant = "E"
    /\ predictor = TRUE
    /\ \/ /\ inBa \in SlotStreams
          /\ outLen \in {SmallOut, uncompressedLengthFirstStrip}
       \/ /\ inBa = Pack(FullCodes("A"))
          /\ outLen = uncompressedLengthFirstStrip
    /\ src = NoSrc
    /\ codeMask = ZeroMask
    /\ pc = "run"
    /\ call = 1
    /\ out1 = <<>>
    /\ SlotEntry

NextSlot ==
    \/ SlotClearStep
    \/ SlotEofStep
    \/ SlotResolveStep
    \/ SlotFinish
    \/ SlotBurst
    \/ BuildCodeMask
    \/ SlotRecall

SpecSlot == InitSlot /\ [][NextSlot]_vars

\* the bytes of Text
TextBytes == <<65, 66, 65, 66, 65>>

\* C14: the decoder keeps no process-wide state: what a call decodes
\* depends on its input buffer and its configuration alone, whatever
\* other code did to a global before the call (the well-formed stream
\* Text always decodes to its five bytes, and a second call on the same
\* buffers writes what the first wrote).
NoGlobalState ==
    (variant = "E" /\ inBa = Pack9(Text) /\ Returned) =>
        /\ dec = TextBytes
        /\ call > 1 => out = out1

\* the stream starts with a ClearCode, and the call has read it
LeadingClear == Len(inBa) >= 2 /\ inBa[1] = 128 /\ inBa[2] < 128 /\ c >= 2

\* C21: after a ClearCode the first code that is neither ClearCode nor
\* EOFCode is emitted without table growth (nextCode stays 258), every
\* later such code before the next ClearCode makes nextCode grow by exactly
\* one, and ClearCode and EOFCode add no entry.
TableGrowth ==
    [][(OneCode /\ LeadingClear /\ codeMask = BuiltMask /\ pc' # "crash") =>
         IF code' = CLEAR_CODE THEN nextCode' = 258
         ELSE IF code' = EOF_CODE THEN nextCode' = nextCode
         ELSE IF code = CLEAR_CODE THEN nextCode = 258 /\ nextCode' = 258
         ELSE nextCode' = nextCode + 1]_vars

\* the positions lo..hi of the output that are among the first 3 of a row
RowStarts(lo, hi) == {q \in lo..hi : (q - 1) % bytesPerRow < 3}

\* C22: the row position is back at 0 after every bytesPerRow bytes, also
\* when the string written for one code crosses that boundary: the first
\* 3 bytes of every row are written as the decoded bytes themselves.
RowReset ==
    [][predictor =>
         \A q \in RowStarts(Len(out) + 1, Len(out')) : out'[q] = dec'[q]]_vars

\* the string just written started in the first row and ended in the
\* second, whose first byte would differ had the byte 3 back been added
RowResetWitness ==
    /\ predictor
    /\ psLen > 3
    /\ n > bytesPerRow + 3
    /\ n - psLen < bytesPerRow
    /\ out[bytesPerRow + 1] = dec[bytesPerRow + 1]
    /\ out[bytesPerRow - 2] # 0

\* the bits left in the bit buffer after the last extraction
Leftover == IF variant = "E" THEN availBits ELSE nBits

\* the smallest k with left + 8k >= w
MinBytes(left, w) == IF left >= w THEN 0 ELSE (w - left + 7) \div 8

\* C23: for every code the reader takes the smallest number of input bytes
\* that makes the buffered bits reach the code width, never one more, and
\* between 0 and 7 bits are left after every extraction.
NoOverRead ==
    /\ [](Leftover \in 0..7)
    /\ [][OneIteration =>
            /\ c' - c = MinBytes(Leftover, codeBits)
            /\ Leftover' = Leftover + 8 * (c' - c) - codeBits]_vars

\* a 12-bit code was cut with bits left over that a single further byte
\* completes to the next code
NoOverReadWitness ==
    /\ pc = "run"
    /\ codeBits = 12
    /\ Leftover >= 4
    /\ code \in 0..255
    /\ nextCode > 2100

\* C24: an inserted entry records the length of the previous string plus
\* one, whatever that length is, with no truncation and no wraparound, and
\* the bytes read back for its code are the previous string followed by
\* the appended byte.
EntryLength ==
    [][(OneCode /\ LeadingClear /\ code' <= nextCode /\ nextCode' = nextCode + 1) =>
         /\ SLenOf(Locals', nextCode, Junk) = psLen + 1
         /\ ArenaRead(strings', SOf(Locals', nextCode), psLen + 1) =
               PrevString(Locals) \o <<dec'[Len(dec) + 1]>>]_vars

(***************************************************************************)
(* The code widths of the four generations side by side.  Each reads the   *)
(* codes of the same inBa with its own cursor and its own bookkeeping;     *)
(* of the table only what the bookkeeping depends on is kept (nextCode     *)
(* and whether there is a previous string).                                *)
(***************************************************************************)

\* bytes a generation reads for a code: "A" one and a second if
\* (nBits < codeBits), the others while (availBits < codeBits)
WidthBytes(g, t) ==
    IF g = "A" THEN (IF t.left + 8 < t.codeBits THEN 2 ELSE 1)
    ELSE IF t.left >= t.codeBits THEN 0 ELSE (t.codeBits - t.left + 7) \div 8

\* the buffer after k more bytes from the cursor on
RECURSIVE WidthFill(_, _)
WidthFill(t, k) ==
    IF k = 0 THEN t
    ELSE WidthFill([t EXCEPT !.buf = t.buf * 256 + inBa[t.c + 1],
                             !.c = t.c + 1, !.left = t.left + 8], k - 1)

\* GetNextCode: the code is cut from the top of the buffered bits, which
\* keep the rest
WidthRead(g, t) ==
    LET f == WidthFill(t, WidthBytes(g, t))
        a == f.left - f.codeBits
    IN  [f EXCEPT !.code = (f.buf \div 2^a) % 2^(f.codeBits),
                  !.left = a, !.buf = f.buf % 2^a]

\* if (code == CLEAR_CODE)
WidthClear(g, t) ==
    [t EXCEPT !.codeBits = 9, !.nextBump = IF g = "A" THEN 511 ELSE 512,
              !.nextCode = 258, !.currCode = 257, !.psLen = 0]

\* currCode++; if (currCode == nextBump - 1) { nextBump <<= 1; codeSize++; }
WidthCount(t) ==
    IF t.currCode + 1 = t.nextBump - 1
    THEN [t EXCEPT !.currCode = t.currCode + 1, !.nextBump = t.nextBump * 2,
                   !.codeBits = t.codeBits + 1]
    ELSE [t EXCEPT !.currCode = t.currCode + 1]

\* "A": if (psLen) ++nextCode; psLen = sLen[code];
\* if (nextCode == nextBump) { nextBump = (nextBump << 1) + 1; ++codeBits; }
\* len is sLen[code] as far as it matters: 0 or not
WidthInsert(t, len) ==
    LET nc == IF t.psLen # 0 THEN t.nextCode + 1 ELSE t.nextCode
    IN  IF nc = t.nextBump
        THEN [t EXCEPT !.nextCode = nc, !.psLen = len,
                       !.nextBump = t.nextBump * 2 + 1, !.codeBits = t.codeBits + 1]
        ELSE [t EXCEPT !.nextCode = nc, !.psLen = len]

\* the slot generations: if (psLen && nextCode <= MAXCODE) nextCode++
WidthSlotInsert(t) ==
    [t EXCEPT !.nextCode = IF t.psLen # 0 /\ t.nextCode <= MAXCODE
                           THEN t.nextCode + 1 ELSE t.nextCode,
              !.psLen = 1]

\* sLen[code] in "A" as far as it matters: an entry that was written has
\* a length that is not 0; one that was not (code > nextCode) has whatever
\* the stack holds
WidthLens(t) == IF t.code > t.nextCode THEN {0, 1} ELSE {1}

\* the rest of the iteration after the code was read; len is used by "A"
WidthBody(g, t, len) ==
    IF t.code = CLEAR_CODE THEN WidthClear(g, t)
    ELSE IF g = "A"
    THEN IF t.code = EOF_CODE THEN [t EXCEPT !.live = FALSE]
         ELSE WidthInsert(t, len)
    ELSE IF g = "E"
    THEN IF t.code = EOF_CODE THEN [t EXCEPT !.live = FALSE]
         ELSE WidthSlotInsert(WidthCount(t))
    ELSE IF t.code = EOF_CODE THEN [WidthCount(t) EXCEPT !.live = FALSE]
         ELSE WidthSlotInsert(WidthCount(t))

\* the next code of generation g lies inside inBa
WidthCanRead(g, t) ==
    t.live /\ t.c < Len(inBa) /\ t.c + WidthBytes(g, t) <= Len(inBa)

\* every generation that is still decoding does its next iteration
WidthStep ==
    /\ \E g \in Generations : WidthCanRead(g, width[g])
    /\ \E len \in WidthLens(WidthRead("A", width["A"])) :
         width' = [g \in Generations |->
                     IF WidthCanRead(g, width[g])
                     THEN WidthBody(g, WidthRead(g, width[g]), len)
                     ELSE [width[g] EXCEPT !.live = FALSE]]
    /\ UNCHANGED <<cfgVars, inBa, pc, call, out1, bitVars, tabVars, outVars, slotVars>>

\* a code beyond the next free one, then literals until the width grows
BeyondRun ==
    [k \in 1..262 |->
        IF k = 1 THEN <<CLEAR_CODE, 9>>
        ELSE IF k = 3 THEN <<300, 9>>
        ELSE <<65, WidthAt("A", k - 1)>>]

WidthStreams ==
    Streams \cup {Pack(FullCodes("A")), Pack(MixedCodes("A")), Pack(GrowClear),
                  Pack(BeyondRun)}

InitWidth ==
    /\ variant = "A"
    /\ predictor = TRUE
    /\ inBa \in WidthStreams
    /\ src = NoSrc
    /\ outLen = uncompressedLengthFirstStrip
    /\ Entry

SpecWidth == InitWidth /\ [][WidthStep]_vars

\* C25: for every input stream the generation that bumps the width when
\* nextCode == nextBump (511, 1023, ...) and the ones that bump when
\* currCode == nextBump - 1 (512, 1024, ...), with the counter advanced
\* before or after the EOFCode test, read every code with the same width:
\* as long as two of them are decoding, both are at the same bit of the
\* stream with the same width.
WidthsAgree ==
    \A g, h \in Generations :
       (width[g].live /\ width[h].live) =>
          /\ width[g].codeBits = width[h].codeBits
          /\ 8 * width[g].c - width[g].left = 8 * width[h].c - width[h].left

(***************************************************************************)
(* The predictor of src/unnamed/part_000:162-179 (and src/main.cpp:        *)
(* 500-512): the last three bytes written are kept in char prev[3], read   *)
(* and written at m, which goes round 0, 1, 2 and is not reset at a row    *)
(* start.                                                                  *)
(***************************************************************************)
\* a plausible slip: prev is cleared at the start of the strip only
CircByteOnce(st, b) ==
    LET b1 == (b + st.prev[st.m + 1]) % 256
    IN  [out  |-> Append(st.out, b1), n |-> st.n + 1,
         prev |-> [st.prev EXCEPT ![st.m + 1] = b1],
         m    |-> IF st.m = 2 THEN 0 ELSE st.m + 1]

\* one pass of the output loop for the string byte b
CircByte(st, b) ==
    LET p0 == IF st.n % bytesPerRow = 0 THEN <<0, 0, 0>> ELSE st.prev
        b1 == (b + p0[st.m + 1]) % 256
    IN  [out  |-> Append(st.out, b1), n |-> st.n + 1,
         prev |-> [p0 EXCEPT ![st.m + 1] = b1],
         m    |-> IF st.m = 2 THEN 0 ELSE st.m + 1]

\* the output loop over raw[lo .. hi], one half after the other
RECURSIVE EmitCirc(_, _, _, _)
EmitCirc(st, raw, lo, hi) ==
    IF lo > hi THEN st
    ELSE IF lo = hi THEN CircByte(st, raw[lo])
    ELSE LET mid == (lo + hi) \div 2
         IN  CHOOSE res \in
               {EmitCirc(head, raw, mid + 1, hi) :
                  head \in {EmitCirc(st, raw, lo, mid)}} : TRUE

\* prev, m and n at the entry of decompressLZW
CircEntry == [out |-> <<>>, n |-> 0, prev |-> <<0, 0, 0>>, m |-> 0]

\* pBuf and n at the entry of decompressLZW
ShiftEntry == [out |-> <<>>, n |-> 0, pBuf |-> 0]

\* C26: for every sequence of decoded bytes the three predictors, the
\* circular buffer prev[m], the shift register pBuf and the read of the
\* output byte 3 positions back, write the same byte at every position
\* (compared over all the bytes of a call once it has stopped; out is what
\* the decoder at hand wrote with its own predictor).
PredictorsAgree ==
    (predictor /\ Stopped) =>
       \E circ \in {EmitCirc(CircEntry, dec, 1, Len(dec)).out} :
          /\ circ = EmitShift(ShiftEntry, dec, 1, Len(dec)).out
          /\ circ = EmitDirect(<<>>, 0, dec, 1, Len(dec))
          /\ circ = out

\* bytes of a second row were written, one of them a sum that wrapped
PredictorsAgreeWitness ==
    /\ predictor
    /\ Returned
    /\ Len(out) > bytesPerRow + 6
    /\ out[bytesPerRow + 4] # dec[bytesPerRow + 4]
    /\ \E p \in 760..775 : dec[p] + out[p - 3] >= 256

\* C27: the pending branch (code == nextCode) is taken only with a
\* previous string that is not empty: an iteration that reads the next
\* free code while there is no previous string emits nothing and stores
\* nothing.
PendingNeedsPrev ==
    [][(OneCode /\ code' = nextCode /\ psLen = 0) =>
         /\ dec' = dec
         /\ strings' = strings
         /\ sLen' = sLen]_vars

\* The bits of the bit buffer that have been read from the stream and not
\* yet consumed by a code.
Unconsumed == IF variant = "E" THEN pending ELSE iBuf[4] % 2^nBits

\* C28: an iteration that reads a ClearCode writes no output byte and
\* leaves the count of bytes written, the row position, the decoded
\* bytes and the predictor's window as they were; the unconsumed bits of
\* the bit buffer are the low bits of the last byte read; and the first
\* byte written after a ClearCode in the middle of a row is still
\* predicted from the byte three positions before it.
ClearKeepsOutput ==
    [][/\ (OneCode /\ code' = CLEAR_CODE /\ codeMask = BuiltMask) =>
            /\ out' = out
            /\ dec' = dec
            /\ n' = n
            /\ n' % bytesPerRow = n % bytesPerRow
            /\ pBuf' = pBuf
            /\ Leftover' = Leftover + 8 * (c' - c) - codeBits
            /\ Unconsumed' = inBa[c'] % 2^Leftover'
       /\ (OneCode /\ code = CLEAR_CODE /\ predictor /\ Len(out') > Len(out)
             /\ Len(out) % bytesPerRow >= 3) =>
            out'[Len(out) + 1] = (dec'[Len(out) + 1] + out[Len(out) - 2]) % 256]_vars

ClearKeepsOutputWitness ==
    /\ predictor
    /\ pc = "run"
    /\ code = 66
    /\ nextCode = 258
    /\ psLen = 1
    /\ n = 257
    /\ Leftover > 0
    /\ out[257] = (66 + out[254]) % 256
    /\ out[254] # 0

(***************************************************************************)
(* A stream that fills the arena                                           *)
(***************************************************************************)
\* length of the string that the stream builds and then repeats
RunLen == 126

\* sEnd once the strings of lengths 2..RunLen are built: each of them is
\* stored twice, by the pending branch and by the insertion
RampEnd == 257 + RunLen * (RunLen + 1) - 2

\* the number of repeats after which an entry ends past the arena
ArenaRepeats == (LZW_STRINGS_SIZE - RampEnd) \div (RunLen + 1) + 1

\* ClearCode, 0, then the next free code RunLen - 1 times (strings of zeros
\* of lengths 2..RunLen), then the last of them again and again: every
\* repeat stores a string of RunLen + 1 bytes
ArenaRun(v) ==
    [k \in 1..(RunLen + 1 + ArenaRepeats) |->
        IF k = 1 THEN <<CLEAR_CODE, 9>>
        ELSE IF k = 2 THEN <<0, 9>>
        ELSE IF k <= RunLen + 1 THEN <<255 + k, WidthAt(v, k - 1)>>
        ELSE <<256 + RunLen, WidthAt(v, k - 1)>>]

InitArena ==
    /\ Configured
    /\ inBa \in {Pack(ArenaRun(variant)),
                 Pack9(<<CLEAR_CODE, 65, EOF_CODE>>), Pack9(<<CLEAR_CODE, 65>>)}
    /\ src = NoSrc
    /\ outLen = uncompressedLengthFirstStrip
    /\ Entry

\* The cursor of the arena: what an iteration does to the reader, to s,
\* sLen, sEnd, psLen, nextCode and the code width.  The bytes it stores and
\* the bytes it writes to the output are left out: no pointer, length or
\* width is computed from them.
CursorStored(L) ==
    /\ c' = L.c
    /\ incoming' = L.incoming
    /\ iBuf' = L.iBuf
    /\ nBits' = L.nBits
    /\ code' = L.code
    /\ s' = L.s
    /\ sLen' = L.sLen
    /\ sEnd' = L.sEnd
    /\ psLen' = L.psLen
    /\ nextCode' = L.nextCode
    /\ codeBits' = L.codeBits
    /\ nextBump' = L.nextBump
    /\ UNCHANGED <<strings, ps, n, out, dec, pBuf>>

CursorBody(L, len) ==
    CHOOSE L5 \in
      {[Bump(L4) EXCEPT !.strings = L.strings, !.ps = L.ps] : L4 \in
        {CopyPrev(L3, L.code, len) : L3 \in
          {AddString(L2, L.code, len) : L2 \in {NewString(L, L.code)}}}} : TRUE

CursorIteration(L) ==
    IF L.stop \/ ~LoopCond(L) \/ G1(L) # {0} \/ G2(L) # {0}
    THEN [L EXCEPT !.stop = TRUE]
    ELSE LET r   == GetNextCode(L, 0, 0)
             L1  == NewString(r, r.code)
             len == SLenOf(L1, r.code, 0)
             L5  == IF r.code = CLEAR_CODE THEN Clear(r) ELSE CursorBody(r, len)
         IN  IF \/ IsEof(r.code)
                \/ (r.code # CLEAR_CODE /\ (LenChoices(L1, r.code) # {0} \/ len < 0))
                \/ L5.ub
             THEN [L EXCEPT !.stop = TRUE]
             ELSE L5

RECURSIVE CursorIterations(_, _)
CursorIterations(L, k) ==
    IF k <= 1 THEN CursorIteration(L)
    ELSE LET head == CursorIterations(L, k \div 2)
         IN  IF head.stop THEN head ELSE CursorIterations(head, k - k \div 2)

\* one iteration of the loop
CursorStep ==
    /\ pc = "run"
    /\ LoopCond(Locals)
    /\ \E g1 \in G1(Locals), g2 \in G2(Locals) :
         \E r \in {GetNextCode(Locals, g1, g2)} :
           IF r.code = CLEAR_CODE
           THEN /\ CursorStored(Clear(r))
                /\ pc' \in After(r, "run")
           ELSE IF IsEof(r.code)
           THEN /\ CursorStored(r)
                /\ pc' \in After(r, "done")
           ELSE \E L1 \in {NewString(r, r.code)} :
                \E gl \in LenChoices(L1, r.code) :
                \E len \in {SLenOf(L1, r.code, gl)} :
                  IF len < 0
                  THEN /\ CursorStored(L1)
                       /\ pc' = "crash"
                  ELSE \E L5 \in {CursorBody(r, len)} :
                         /\ CursorStored(L5)
                         /\ pc' \in After(L5, "run")
    /\ UNCHANGED <<cfgVars, width, inBa, call, out1, slotVars>>

\* the iterations of the stream that store their strings inside the
\* arena, taken in one step
CursorBurst ==
    /\ pc = "run"
    /\ c = 0
    /\ LET L == CursorIterations(Locals, RunLen + ArenaRepeats)
       IN  /\ ~L.stop
           /\ CursorStored(L)
    /\ pc' = "run"
    /\ UNCHANGED <<cfgVars, width, inBa, call, out1, slotVars>>

NextCursor ==
    \/ CursorStep
    \/ Finish
    \/ CursorBurst

SpecCursor == InitArena /\ [][NextCursor]_vars

\* C29: in the arena variants, once a ClearCode has started the stream,
\* every entry k of 258..nextCode-1 occupies [s[k], s[k] + sLen[k]), which
\* lies within strings[257..LZW_STRINGS_SIZE); the ranges are disjoint
\* (each ends where the next begins or before), none reaches into the
\* literals strings[0..255], and sEnd is not past the end of the arena.
ArenaRanges ==
    (variant \in {"A", "C"} /\ LeadingClear) =>
        /\ sEnd <= LZW_STRINGS_SIZE
        /\ \A k \in 258..(nextCode - 1) :
             /\ SOf(Locals, k) >= 257
             /\ SOf(Locals, k) > 255
             /\ SOf(Locals, k) + SLenOf(Locals, k, Junk) <= LZW_STRINGS_SIZE
             /\ k + 1 < nextCode =>
                  SOf(Locals, k) + SLenOf(Locals, k, Junk) <= SOf(Locals, k + 1)

=============================================================================
